---- MODULE Spec2Model ----
(***************************************************************************)
(* Express-Web-Radio: the Player (player.js) and the WebRadio facade       *)
(* (index.js) as a state machine.                                          *)
(*                                                                         *)
(* Everything runs on one Node.js event loop, so every handler below is    *)
(* one atomic action: a public call (start, stop, the connect middleware), *)
(* a listener's "close" event, the resumption of playNextSong after        *)
(* `await getBitRate`, and the stream events of the file read stream and   *)
(* of the Throttle it is piped into.                                       *)
(*                                                                         *)
(* The read stream and the Throttle are Node streams.  What the model      *)
(* keeps of them is what player.js relies on: a read stream does not flow  *)
(* before it is piped; a pipe hands chunks to its destinations under       *)
(* backpressure and calls end() on them when the source ends; destroying   *)
(* the source stops it from producing and from ending, but does not touch  *)
(* the destination, which keeps the chunks it already holds and goes on    *)
(* emitting them ("data"), and emits "end" once it was ended and drained.  *)
(***************************************************************************)
EXTENDS Integers, Sequences, FiniteSets, TLC

\* ---------------------------------------------------------------- bounds
\* How many objects one run may create: the read streams playNextSong opens
\* (line 85) plus the sinks createResponseSink makes (line 36).
MaxObjects == 3

\* ------------------------------------------------------------- the inputs
\* The audio directory, as fs.readdirSync(..., {withFileTypes: true}) lists it;
\* `chunks` is the size of the file in chunks of the read stream.
Directory ==
    << [name |-> "a.mp3", ext |-> ".mp3", file |-> TRUE, chunks |-> 2],
       [name |-> "b.mp3", ext |-> ".mp3", file |-> TRUE, chunks |-> 1],
       [name |-> "notes.txt", ext |-> ".txt", file |-> TRUE, chunks |-> 1] >>

\* The number of chunks of the file called name.
Chunks(name) == (CHOOSE e \in { Directory[i] : i \in 1..Len(Directory) } : e.name = name).chunks

VARIABLES
    loop,               \* options.loop
    shuffle,            \* options.shuffle
    songs,              \* player.songs: the queued songs
    currentSong,        \* player.currentSong ("none" is null)
    playing,            \* player.playing
    currentSongStream,  \* player._currentSongStream: a stream id, 0 is null
    sinks,              \* player.sinks: the Map's keys in insertion order
    sinkObj,            \* every PassThrough ever created, by sink id
    streams,            \* every read stream ever opened, by stream id
    pacers,             \* every Throttle ever piped into, by pacer id
    pending,            \* playNextSong calls suspended at `await getBitRate`
    crashed,            \* the process died of an uncaught error
    last,               \* the handler that ran last and how it ended
    bcast,              \* history: the chunks given to broadcastChunk, in order
    sinkHist,           \* history: per sink, where in bcast it joined and left
    stopReq,            \* history: the stop accepted since the last start
    cancelled,          \* history: the streams a stop(false) tore down
    call                \* a call of a pure method: its inputs and its result

vars == << loop, shuffle, songs, currentSong, playing, currentSongStream,
           sinks, sinkObj, streams, pacers, pending, crashed,
           last, bcast, sinkHist, stopReq, cancelled, call >>

\* The Player's own fields and the sink registry.
engineVars == << songs, currentSong, playing, currentSongStream, sinks, sinkObj >>

\* ----------------------------------------------------------------- helpers
Range(s) == { s[i] : i \in 1..Len(s) }

\* The test of the filter of line 23.  `item.isFile` names the method without
\* calling it: the value is a function, which is truthy for every entry.
Qualifies(item) == TRUE /\ item.ext = ".mp3"

RECURSIVE FilterNames(_)
\* Array.prototype.filter followed by map(item => item.name), line 23.
FilterNames(s) ==
    IF s = << >> THEN << >>
    ELSE IF Qualifies(Head(s)) THEN << Head(s).name >> \o FilterNames(Tail(s))
         ELSE FilterNames(Tail(s))

\* All orders of the elements of a sequence without repetitions.
Perms(s) ==
    { p \in [1..Len(s) -> Range(s)] : \A i, j \in 1..Len(s) : i # j => p[i] # p[j] }

\* readSongs returning the directory's songs last first.
ReadSongsReversed(dir, sh) ==
    LET l == FilterNames(dir) IN { [i \in 1..Len(l) |-> l[Len(l) + 1 - i]] }


\* Player.readSongs: the results it may return (one unless shuffle is on; the
\* Fisher-Yates loop of lines 25-28 can produce every order).
ReadSongs(dir, sh) ==
    IF sh THEN Perms(FilterNames(dir)) ELSE { FilterNames(dir) }

\* ------------------------------------------------------------------ streams
\* A chunk is <<stream id, index in the track>>.
NewStream(song) ==
    [song |-> song, pos |-> 0, ended |-> FALSE, destroyed |-> FALSE, dests |-> {}]

NewPacer == [buf |-> << >>, ended |-> FALSE, done |-> FALSE]

NewSink == [state |-> "open", received |-> << >>]

\* stream.destroy(): the stream reads and emits nothing more.  No-op for null
\* callers, who never get here, and for a stream that is already destroyed.
Destroy(strs, s) == [strs EXCEPT ![s].destroyed = TRUE]

\* PassThrough.write: an open sink takes the chunk; an ended or destroyed one
\* refuses it.
SinkWrite(obj, chunk) ==
    IF obj.state = "open" THEN [obj EXCEPT !.received = Append(@, chunk)] ELSE obj

\* broadcastChunk with a loop that leaves out the sink registered first.
BroadcastChunkSkipFirst(reg, objs, chunk) ==
    [i \in DOMAIN objs |->
        IF i \in Range(reg) /\ i # reg[1] THEN SinkWrite(objs[i], chunk) ELSE objs[i]]

\* Player.broadcastChunk, lines 48-52: the sinks after the loop.
BroadcastChunk(reg, objs, chunk) ==
    [i \in DOMAIN objs |->
        IF i \in Range(reg) THEN SinkWrite(objs[i], chunk) ELSE objs[i]]

\* `for (const [, sink] of this.sinks) sink.end()`: lines 74-76, 97-99, 119-121.
EndSinks(reg, objs) ==
    [i \in DOMAIN objs |->
        IF i \in Range(reg) THEN [objs[i] EXCEPT !.state = "ended"] ELSE objs[i]]

\* History: the sinks of reg leave the feed at the current end of bcast.
LeaveFeed(reg, hist) ==
    [i \in DOMAIN hist |->
        IF i \in Range(reg) /\ hist[i].endAt = -1
        THEN [hist[i] EXCEPT !.endAt = Len(bcast)] ELSE hist[i]]

\* The teardown shared by lines 71-78, 95-101 and 117-123: destroy the active
\* stream, forget it, end every sink, clear the registry.
Teardown ==
    /\ streams' = Destroy(streams, currentSongStream)
    /\ currentSongStream' = 0
    /\ sinkObj' = EndSinks(sinks, sinkObj)
    /\ sinkHist' = LeaveFeed(sinks, sinkHist)
    /\ sinks' = << >>

\* An error nobody catches (a throw inside an event handler, a rejected
\* promise nobody awaits) ends the process or not, depending on the Node
\* version and on the handlers the application installed.
Uncaught == crashed' \in BOOLEAN

\* --------------------------------------------------------------- the engine
\* No call of a pure method is being looked at.
NoCall == [fn |-> "none", done |-> FALSE]

\* The Player after its constructor (lines 10-19).
InitEngine ==
    /\ loop \in BOOLEAN
    /\ shuffle = FALSE   \* index.js 56: the default
    /\ songs = << >>
    /\ currentSong = "none"
    /\ playing = FALSE
    /\ currentSongStream = 0
    /\ sinks = << >>
    /\ sinkObj = << >>
    /\ streams = << >>
    /\ pacers = << >>
    /\ pending = 0
    /\ crashed = FALSE
    /\ last = "ok"
    /\ bcast = << >>
    /\ sinkHist = << >>
    /\ stopReq = "none"
    /\ cancelled = {}

Init == InitEngine /\ call = NoCall

\* Player.playNextSong up to its `await`, lines 65-86, called with queue q.
\* It sets songs, currentSong, playing, currentSongStream, the sinks, streams
\* and pending.  Being async, what it throws
\* rejects a promise that neither caller (lines 104, 110) awaits.
PlayNextSong(q) ==
    IF q = << >> /\ ~loop
    THEN IF currentSongStream = 0
         THEN \* line 71 dereferences null
              /\ songs' = q
              /\ last' = "TypeError"
              /\ Uncaught
              /\ UNCHANGED << currentSong, playing, currentSongStream, sinks,
                              sinkObj, sinkHist, streams, pending >>
         ELSE /\ songs' = q
              /\ Teardown
              /\ playing' = FALSE
              /\ last' = "ok"
              /\ UNCHANGED << currentSong, pending, crashed >>
    ELSE /\ Len(streams) + Len(sinkObj) < MaxObjects
         /\ \E list \in (IF q = << >> THEN ReadSongs(Directory, shuffle) ELSE { q }) :
               /\ currentSong' = Head(list)
               /\ songs' = Tail(list)
               /\ streams' = Append(streams, NewStream(Head(list)))
         /\ currentSongStream' = Len(streams) + 1
         /\ pending' = pending + 1
         /\ last' = "ok"
         /\ UNCHANGED << playing, sinks, sinkObj, sinkHist, crashed >>

\* The guard of start() reading only the player's flag.
StartRejectsOnFlag == playing

\* The guard of start() also refusing once a song has ever been current.
StartRejectsAfterFirst == currentSongStream # 0 \/ currentSong # "none"


\* WebRadio.start (index.js 105-108) and Player.start (108-111).  The guard
\* reads `this.playing` of the WebRadio object, a field nothing ever sets, so
\* only its second half decides.
StartRejects == currentSongStream # 0

Start ==
    /\ ~crashed
    /\ IF StartRejects
       THEN /\ last' = "AlreadyPlaying"
            /\ UNCHANGED << songs, currentSong, playing, currentSongStream, sinks,
                            sinkObj, sinkHist, streams, pending, crashed, stopReq >>
       ELSE /\ \E list \in ReadSongs(Directory, shuffle) : PlayNextSong(list)
            /\ stopReq' = "none"
    /\ UNCHANGED << loop, shuffle, pacers, bcast, cancelled >>

\* The Throttles the active stream is piped into.
CurPacers == IF currentSongStream = 0 THEN {} ELSE streams[currentSongStream].dests

\* The active track is being paced: its Throttle has not emitted "end" yet.
MidTrack == \E p \in CurPacers : ~pacers[p].done

\* The guard of stop() asking, like connect, for an active stream as well.
StopRejectsOnStream == ~playing /\ currentSongStream # 0

\* WebRadio.stop (index.js 127-130) and Player.stop (113-127).
StopRejects == ~playing

Stop(graceful) ==
    LET arg == IF graceful THEN "graceful" ELSE "hard" IN
    /\ ~crashed
    /\ IF StopRejects
       THEN /\ last' = "NotPlaying"
            /\ UNCHANGED << songs, playing, currentSongStream, sinks, sinkObj,
                            sinkHist, streams, stopReq, cancelled >>
       ELSE /\ songs' = << >>
            /\ playing' = FALSE
            /\ stopReq' = IF graceful /\ ~MidTrack THEN "gracefulEarly" ELSE arg
            /\ IF graceful
               THEN /\ last' = "ok"
                    /\ UNCHANGED << currentSongStream, sinks, sinkObj, sinkHist,
                                    streams, cancelled >>
               ELSE IF currentSongStream = 0
                    THEN \* line 117 dereferences null; the caller gets the error
                         /\ last' = "TypeError"
                         /\ UNCHANGED << currentSongStream, sinks, sinkObj, sinkHist,
                                         streams, cancelled >>
                    ELSE /\ Teardown
                         /\ cancelled' = cancelled \cup { currentSongStream }
                         /\ last' = "ok"
    /\ UNCHANGED << loop, shuffle, currentSong, pacers, pending,
                    crashed, bcast >>

\* The rest of playNextSong, lines 87-105, once getBitRate has settled (it
\* always resolves): a new Throttle, playing = true, the pipe.
Resume ==
    /\ ~crashed
    /\ pending > 0
    /\ pending' = pending - 1
    /\ playing' = TRUE
    /\ IF currentSongStream = 0
       THEN \* line 91 dereferences null
            /\ last' = "TypeError"
            /\ Uncaught
            /\ UNCHANGED << streams, pacers >>
       ELSE /\ pacers' = Append(pacers, NewPacer)
            /\ streams' = [streams EXCEPT
                              ![currentSongStream].dests = @ \cup { Len(pacers) + 1 }]
            /\ last' = "ok"
            /\ UNCHANGED crashed
    /\ UNCHANGED << loop, shuffle, songs, currentSong, currentSongStream, sinks,
                    sinkObj, bcast, sinkHist, stopReq, cancelled >>

\* The pipe of line 91 moves the next chunk of stream s into its Throttles,
\* when each has room.
Pull(s) ==
    /\ ~crashed
    /\ ~streams[s].destroyed
    /\ streams[s].dests # {}
    /\ streams[s].pos < Chunks(streams[s].song)
    /\ \A p \in streams[s].dests : pacers[p].buf = << >>
    /\ streams' = [streams EXCEPT ![s].pos = @ + 1]
    /\ pacers' = [p \in DOMAIN pacers |->
                    IF p \in streams[s].dests
                    THEN [pacers[p] EXCEPT !.buf = Append(@, << s, streams[s].pos + 1 >>)]
                    ELSE pacers[p]]
    /\ last' = "ok"
    /\ UNCHANGED << loop, shuffle, songs, currentSong, playing, currentSongStream,
                    sinks, sinkObj, pending, crashed, bcast, sinkHist,
                    stopReq, cancelled >>

\* Stream s has read its whole file: it emits "end", the pipe ends its
\* Throttles, and the read stream destroys itself (autoDestroy).
SourceEnd(s) ==
    /\ ~crashed
    /\ ~streams[s].destroyed
    /\ streams[s].dests # {}
    /\ streams[s].pos = Chunks(streams[s].song)
    /\ streams' = [streams EXCEPT ![s].ended = TRUE, ![s].destroyed = TRUE]
    /\ pacers' = [p \in DOMAIN pacers |->
                    IF p \in streams[s].dests
                    THEN [pacers[p] EXCEPT !.ended = TRUE] ELSE pacers[p]]
    /\ last' = "ok"
    /\ UNCHANGED << loop, shuffle, songs, currentSong, playing, currentSongStream,
                    sinks, sinkObj, pending, crashed, bcast, sinkHist,
                    stopReq, cancelled >>

\* Throttle p emits "data": the handler of lines 91-93.
Emit(p) ==
    /\ ~crashed
    /\ pacers[p].buf # << >>
    /\ pacers' = [pacers EXCEPT ![p].buf = Tail(@)]
    /\ sinkObj' = BroadcastChunk(sinks, sinkObj, Head(pacers[p].buf))
    /\ bcast' = Append(bcast, Head(pacers[p].buf))
    /\ last' = "ok"
    /\ UNCHANGED << loop, shuffle, songs, currentSong, playing, currentSongStream,
                    sinks, streams, pending, crashed, sinkHist,
                    stopReq, cancelled >>

\* Throttle p emits "end": the handler of lines 93-105.
PacerEnd(p) ==
    /\ ~crashed
    /\ pacers[p].ended
    /\ pacers[p].buf = << >>
    /\ ~pacers[p].done
    /\ pacers' = [pacers EXCEPT ![p].done = TRUE]
    /\ IF ~playing
       THEN IF currentSongStream = 0
            THEN \* line 95 dereferences null, inside an event handler
                 /\ last' = "TypeError"
                 /\ crashed' = TRUE
                 /\ UNCHANGED << songs, currentSong, playing, currentSongStream,
                                 sinks, sinkObj, sinkHist, streams, pending >>
            ELSE /\ Teardown
                 /\ last' = "ok"
                 /\ UNCHANGED << songs, currentSong, playing, pending, crashed >>
       ELSE PlayNextSong(songs)
    /\ UNCHANGED << loop, shuffle, bcast, stopReq, cancelled >>

\* The middleware of WebRadio.connect (index.js 151-176) with
\* Player.createResponseSink (33-39).
ConnectRejects == ~playing /\ currentSongStream = 0

Connect ==
    /\ ~crashed
    /\ IF ConnectRejects
       THEN /\ last' = "503"
            /\ UNCHANGED << sinks, sinkObj, sinkHist >>
       ELSE /\ Len(streams) + Len(sinkObj) < MaxObjects
            /\ sinkObj' = Append(sinkObj, NewSink)
            /\ sinks' = Append(sinks, Len(sinkObj) + 1)
            /\ sinkHist' = Append(sinkHist, [regAt |-> Len(bcast), endAt |-> -1])
            /\ last' = "ok"
    /\ UNCHANGED << loop, shuffle, songs, currentSong, playing, currentSongStream,
                    streams, pacers, pending, crashed, bcast, stopReq,
                    cancelled >>

\* removeResponseSink destroying the sink and leaving its entry in the Map.
RemoveFromRegistryKeeps(reg, id) == reg


\* removeResponseSink deleting every entry of the Map.
RemoveFromRegistryClears(reg, id) == << >>


\* Player.removeResponseSink, lines 41-46: the registry and the sinks after it.
RemoveFromRegistry(reg, id) == SelectSeq(reg, LAMBDA k : k # id)

RemoveResponseSink(id) ==
    /\ sinkObj' = IF id \in Range(sinks)
                  THEN [sinkObj EXCEPT ![id].state = "destroyed"] ELSE sinkObj
    /\ sinkHist' = LeaveFeed(<< id >>, sinkHist)
    /\ sinks' = RemoveFromRegistry(sinks, id)

\* The response of listener id emits "close" (index.js 160-162).
Close(id) ==
    /\ ~crashed
    /\ sinkObj[id].state # "destroyed"
    /\ RemoveResponseSink(id)
    /\ last' = "ok"
    /\ UNCHANGED << loop, shuffle, songs, currentSong, playing, currentSongStream,
                    streams, pacers, pending, crashed, bcast, stopReq, cancelled >>

Next ==
    \/ Start /\ UNCHANGED call
    \/ \E graceful \in BOOLEAN : Stop(graceful) /\ UNCHANGED call
    \/ Resume /\ UNCHANGED call
    \/ \E s \in DOMAIN streams : Pull(s) /\ UNCHANGED call
    \/ \E s \in DOMAIN streams : SourceEnd(s) /\ UNCHANGED call
    \/ \E p \in DOMAIN pacers : Emit(p) /\ UNCHANGED call
    \/ \E p \in DOMAIN pacers : PacerEnd(p) /\ UNCHANGED call
    \/ Connect /\ UNCHANGED call
    \/ \E id \in DOMAIN sinkObj : Close(id) /\ UNCHANGED call

Spec == Init /\ [][Next]_vars

\* ----------------------------------------------- a run nobody stops, no loop
\* Player.createResponseSink (33-39) called on the player itself, as a
\* collaborator holding `radio.player` can: the method has no guard, so a
\* sink can be registered before start().
CreateResponseSink ==
    /\ ~crashed
    /\ Len(streams) + Len(sinkObj) < MaxObjects
    /\ sinkObj' = Append(sinkObj, NewSink)
    /\ sinks' = Append(sinks, Len(sinkObj) + 1)
    /\ sinkHist' = Append(sinkHist, [regAt |-> Len(bcast), endAt |-> -1])
    /\ last' = "ok"
    /\ UNCHANGED << loop, shuffle, songs, currentSong, playing, currentSongStream,
                    streams, pacers, pending, crashed, bcast, stopReq,
                    cancelled >>

\* options.loop = false (index.js 55: the default).
InitPlain == Init /\ ~loop

\* Every handler but stop().
NextPlain ==
    \/ Start /\ UNCHANGED call
    \/ Resume /\ UNCHANGED call
    \/ \E s \in DOMAIN streams : Pull(s) /\ UNCHANGED call
    \/ \E s \in DOMAIN streams : SourceEnd(s) /\ UNCHANGED call
    \/ \E p \in DOMAIN pacers : Emit(p) /\ UNCHANGED call
    \/ \E p \in DOMAIN pacers : PacerEnd(p) /\ UNCHANGED call
    \/ Connect /\ UNCHANGED call
    \/ CreateResponseSink /\ UNCHANGED call
    \/ \E id \in DOMAIN sinkObj : Close(id) /\ UNCHANGED call

SpecPlain == InitPlain /\ [][NextPlain]_vars

\* ------------------------------------------------ the directory unreadable
\* start() when fs.readdirSync throws in readSongs (line 22, called at line
\* 109): the error reaches the caller of start() before anything is assigned.
StartUnreadable ==
    /\ ~crashed
    /\ ~StartRejects
    /\ last' = "CatalogUnavailable"
    /\ UNCHANGED << loop, shuffle, songs, currentSong, playing, currentSongStream,
                    sinks, sinkObj, streams, pacers, pending, crashed,
                    bcast, sinkHist, stopReq, cancelled >>

\* The "end" handler of Throttle p when the refill of line 68 throws:
\* playNextSong, being async, rejects its promise, which line 104 drops.
PacerEndUnreadable(p) ==
    /\ ~crashed
    /\ pacers[p].ended
    /\ pacers[p].buf = << >>
    /\ ~pacers[p].done
    /\ playing
    /\ songs = << >>
    /\ loop
    /\ pacers' = [pacers EXCEPT ![p].done = TRUE]
    /\ last' = "CatalogUnavailable"
    /\ Uncaught
    /\ UNCHANGED << loop, shuffle, songs, currentSong, playing, currentSongStream,
                    sinks, sinkObj, streams, pending, bcast, sinkHist,
                    stopReq, cancelled >>

\* Every handler, the directory being readable or not when it is listed.
NextUnreadable ==
    \/ Start /\ UNCHANGED call
    \/ StartUnreadable /\ UNCHANGED call
    \/ \E graceful \in BOOLEAN : Stop(graceful) /\ UNCHANGED call
    \/ Resume /\ UNCHANGED call
    \/ \E s \in DOMAIN streams : Pull(s) /\ UNCHANGED call
    \/ \E s \in DOMAIN streams : SourceEnd(s) /\ UNCHANGED call
    \/ \E p \in DOMAIN pacers : Emit(p) /\ UNCHANGED call
    \/ \E p \in DOMAIN pacers : PacerEnd(p) /\ UNCHANGED call
    \/ \E p \in DOMAIN pacers : PacerEndUnreadable(p) /\ UNCHANGED call
    \/ Connect /\ UNCHANGED call
    \/ \E id \in DOMAIN sinkObj : Close(id) /\ UNCHANGED call

SpecUnreadable == Init /\ [][NextUnreadable]_vars

\* --------------------------------------------------------------- readSongs
\* The longest directory listing looked at.
MaxDirLen == 3

\* Entries a directory may hold: two .mp3 files, a subdirectory whose name
\* ends in .mp3, a file of another type.
Entries ==
    { [name |-> "a.mp3", ext |-> ".mp3", file |-> TRUE, chunks |-> 2],
      [name |-> "b.mp3", ext |-> ".mp3", file |-> TRUE, chunks |-> 1],
      [name |-> "live.mp3", ext |-> ".mp3", file |-> FALSE, chunks |-> 0],
      [name |-> "notes.txt", ext |-> ".txt", file |-> TRUE, chunks |-> 1] }

\* The listings fs.readdirSync may return: entries in some order, none twice.
Listings ==
    UNION { { d \in [1..n -> Entries] : \A i, j \in 1..n : i # j => d[i] # d[j] } :
              n \in 0..MaxDirLen }

InitReadSongs ==
    /\ InitEngine
    /\ call \in { [fn |-> "readSongs", done |-> FALSE, dir |-> d, sh |-> sh,
                    out |-> << >>, again |-> FALSE] :
                    d \in Listings, sh \in BOOLEAN }

\* readSongs is called on the listing.
ReadSongsCall ==
    /\ call.fn = "readSongs"
    /\ ~call.done
    /\ \E list \in ReadSongs(call.dir, call.sh) :
          call' = [call EXCEPT !.done = TRUE, !.out = list]
    /\ UNCHANGED << loop, shuffle, songs, currentSong, playing, currentSongStream,
                    sinks, sinkObj, streams, pacers, pending, crashed,
                    last, bcast, sinkHist, stopReq, cancelled >>

\* readSongs is called once more on the same listing; `prev` keeps what the
\* first call returned.
ReadSongsAgain ==
    /\ call.fn = "readSongs"
    /\ call.done
    /\ ~call.again
    /\ \E list \in ReadSongs(call.dir, call.sh) :
          call' = [fn |-> "readSongs", done |-> TRUE, dir |-> call.dir,
                   sh |-> call.sh, out |-> list, again |-> TRUE, prev |-> call.out]
    /\ UNCHANGED << loop, shuffle, songs, currentSong, playing, currentSongStream,
                    sinks, sinkObj, streams, pacers, pending, crashed,
                    last, bcast, sinkHist, stopReq, cancelled >>

NextReadSongs == ReadSongsCall \/ ReadSongsAgain

SpecReadSongs == InitReadSongs /\ [][NextReadSongs]_vars

\* ------------------------------------------------------------- getBitRate
\* JavaScript values: undefined, NaN, a number (its integer part and its
\* first decimal), a string (its characters).
Undefined == [t |-> "undefined"]
NaN == [t |-> "NaN"]
Num(i, f) == [t |-> "num", int |-> i, frac |-> f]
Str(s) == [t |-> "str", chars |-> s]

Digits == << "0", "1", "2", "3", "4", "5", "6", "7", "8", "9" >>

IsDigit(c) == c \in Range(Digits)

DigitValue(c) == (CHOOSE i \in 1..10 : Digits[i] = c) - 1

RECURSIVE NatToString(_)
\* Number.prototype.toString of a non-negative integer.
NatToString(n) ==
    IF n < 10 THEN << Digits[n + 1] >>
    ELSE Append(NatToString(n \div 10), Digits[(n % 10) + 1])

\* ToString of the language, the first step of parseInt.
JsToString(v) ==
    CASE v.t = "undefined" -> << "u", "n", "d", "e", "f", "i", "n", "e", "d" >>
      [] v.t = "NaN" -> << "N", "a", "N" >>
      [] v.t = "str" -> v.chars
      [] v.t = "num" -> IF v.frac = 0 THEN NatToString(v.int)
                        ELSE NatToString(v.int) \o << ".", Digits[v.frac + 1] >>

RECURSIVE LeadingDigits(_)
\* The longest prefix of s made of digits.
LeadingDigits(s) ==
    IF s = << >> \/ ~IsDigit(Head(s)) THEN << >>
    ELSE << Head(s) >> \o LeadingDigits(Tail(s))

RECURSIVE DigitsToNat(_)
DigitsToNat(d) ==
    IF d = << >> THEN 0
    ELSE 10 * DigitsToNat(SubSeq(d, 1, Len(d) - 1)) + DigitValue(d[Len(d)])

\* parseInt(v): the integer written at the start of JsToString(v), NaN when
\* there is none.
ParseInt(v) ==
    LET d == LeadingDigits(JsToString(v))
    IN  IF d = << >> THEN NaN ELSE Num(DigitsToNat(d), 0)

\* ToBoolean of a value, as `||` takes it.
Truthy(v) ==
    CASE v.t = "undefined" -> FALSE
      [] v.t = "NaN" -> FALSE
      [] v.t = "str" -> v.chars # << >>
      [] v.t = "num" -> v.int # 0 \/ v.frac # 0

\* What `await ffprobe(song)` can do: reject, or resolve to an object whose
\* `streams` is missing, empty, or holds a stream with some bit_rate.
ProbeRejected == [settled |-> "rejected", hasStreams |-> FALSE, streams |-> << >>]
ProbeNoStreams == [settled |-> "resolved", hasStreams |-> FALSE, streams |-> << >>]
ProbeStreams(s) == [settled |-> "resolved", hasStreams |-> TRUE, streams |-> s]

\* `(await ffprobe(song)).streams[0].bit_rate` throws.
ProbeThrows(probe) ==
    probe.settled = "rejected" \/ ~probe.hasStreams \/ probe.streams = << >>

\* Player.getBitRate, lines 54-63.
GetBitRate(fixed, probe) ==
    IF Truthy(fixed) THEN ParseInt(fixed)
    ELSE IF ProbeThrows(probe) THEN Num(128000, 0)
    ELSE ParseInt(probe.streams[1].bit_rate)

\* The values options.bitrate may hold past the constructor's validation
\* (index.js 69-71: falsy, or of type number).
FixedBitrates ==
    { Undefined, NaN, Num(0, 0), Num(96000, 0), Num(128000, 0), Num(320000, 0),
      Num(128000, 5) }

\* The outcomes of the probe.
ProbeOutcomes ==
    { ProbeRejected, ProbeNoStreams, ProbeStreams(<< >>) } \cup
    { ProbeStreams(<< [bit_rate |-> b] >>) :
        b \in { Str(<< "1", "2", "8", "0", "0", "0" >>),
                Str(<< "9", "6", "0", "0", "0" >>),
                Str(<< "3", "2", "0", "0", "0", "0" >>),
                Str(<< "N", "/", "A" >>),
                Num(192000, 0),
                Undefined } }

InitBitRate ==
    /\ InitEngine
    /\ call \in { [fn |-> "getBitRate", done |-> FALSE, fixed |-> f, probe |-> p,
                    out |-> Undefined] : f \in FixedBitrates, p \in ProbeOutcomes }

\* One call of getBitRate settles.
GetBitRateCall ==
    /\ call.fn = "getBitRate"
    /\ ~call.done
    /\ call' = [call EXCEPT !.done = TRUE, !.out = GetBitRate(call.fixed, call.probe)]
    /\ UNCHANGED << loop, shuffle, songs, currentSong, playing, currentSongStream,
                    sinks, sinkObj, streams, pacers, pending, crashed,
                    last, bcast, sinkHist, stopReq, cancelled >>

NextBitRate == GetBitRateCall

SpecBitRate == InitBitRate /\ [][NextBitRate]_vars

\* ------------------------------------------------------------- engine states
\* The playback predicate of the connect middleware (index.js 152): offline
\* is Idle or Stopped, anything else is Playing or StoppingGraceful.
Offline == ~playing /\ currentSongStream = 0

\* A stop(true) was accepted and no start() since.
Graceful == stopReq \in { "graceful", "gracefulEarly" }

\* A stop(true) was accepted and the active track has not finished.
StoppingGraceful == Graceful /\ currentSongStream # 0

\* A start() was accepted, no stop() since, and the engine has not stopped.
PlayingState == stopReq = "none" /\ currentSongStream # 0

\* The read streams that are open: neither read to their end nor destroyed.
\* Each is the byte source of an Active Playback.
OpenSources == { s \in DOMAIN streams : ~streams[s].destroyed }

\* Every sink of the registry is ended and the registry cleared, after a step.
AllEnded ==
    /\ sinks' = << >>
    /\ \A id \in Range(sinks) : sinkObj'[id].state = "ended"

\* --------------------------------------------------------------- the claims

\* C1: in every reachable state at most one Active Playback exists: at most
\* one track byte source is open at a time.
C1_SingleProducer == Cardinality(OpenSources) <= 1

\* C2: once stop(true) has been accepted, no new track starts (no read stream
\* is opened) until a later start().
C2_NoTrackAfterGraceful ==
    [][ Graceful /\ Graceful' => Len(streams') = Len(streams) ]_vars

\* C3: after stop(false) returns, no chunk of the interrupted track is
\* written to any sink, including sinks registered after a later start().
C3_NoChunkAfterHardStop ==
    [][ \A id \in DOMAIN sinkObj :
          Len(sinkObj'[id].received) > Len(sinkObj[id].received)
            => sinkObj'[id].received[Len(sinkObj'[id].received)][1] \notin cancelled
      ]_vars

\* C4: an accepted stop(false) leaves the Play Queue empty, the active
\* stream released, every registered sink ended, the registry empty and the
\* engine not playing.
C4_HardStopPost ==
    [][ Stop(FALSE) /\ ~StopRejects
          => /\ songs' = << >>
             /\ currentSongStream' = 0
             /\ ~playing'
             /\ AllEnded
      ]_vars

\* C5: after stop(true) mid-track, sinks are ended only by the step in which
\* the active track's Throttle signals completion, and that step ends every
\* sink, clears the registry and leaves the engine Stopped.
C5_GracefulDrain ==
    [][ stopReq = "graceful" /\ stopReq' = "graceful"
          => /\ (\E id \in Range(sinks) : sinkObj'[id].state = "ended")
                  => \E p \in CurPacers : ~pacers[p].done /\ pacers'[p].done
             /\ (\E p \in CurPacers : ~pacers[p].done /\ pacers'[p].done)
                  => AllEnded /\ Offline'
      ]_vars

\* C6: stop(false) during StoppingGraceful is accepted and stops the engine at
\* once: the active playback is torn down and all sinks are ended.
C6_HardStopWhileGraceful ==
    [][ Stop(FALSE) /\ StoppingGraceful
          => last' = "ok" /\ Offline' /\ AllEnded
      ]_vars

\* C7: stop() is accepted in every state in which the engine is Playing, from
\* the return of a successful start() on: it does not raise NotPlaying.
C7_StopAcceptedWhilePlaying ==
    [][ (\E g \in BOOLEAN : Stop(g)) /\ PlayingState => last' # "NotPlaying" ]_vars

\* C8: start() while a track is active (there is an active stream: Playing,
\* or StoppingGraceful with the track still finishing) raises AlreadyPlaying
\* and changes nothing.
C8_StartWhileActive ==
    [][ Start /\ currentSongStream # 0
          => last' = "AlreadyPlaying" /\ UNCHANGED engineVars ]_vars

\* A start() was refused while a gracefully stopped track was still finishing
\* with a listener connected.
C8_Witness ==
    last = "AlreadyPlaying" /\ StoppingGraceful /\ MidTrack /\ sinks # << >>

Feed(id) ==
    SubSeq(bcast, sinkHist[id].regAt + 1,
           IF sinkHist[id].endAt = -1 THEN Len(bcast) ELSE sinkHist[id].endAt)

\* C10: every sink receives exactly the chunks broadcast between its
\* registration and its removal or end, each once and in broadcast order.
C10_SinkFeed == \A id \in DOMAIN sinkObj : sinkObj[id].received = Feed(id)

\* A sink that joined after a chunk was broadcast, received one, left, and
\* missed a later one.
C10_Witness ==
    \E id \in DOMAIN sinkObj :
        /\ sinkHist[id].regAt > 0
        /\ sinkObj[id].received # << >>
        /\ sinkHist[id].endAt # -1
        /\ sinkHist[id].endAt < Len(bcast)

\* ------------------------------------------------ C11: one cycle, no loop
\* The catalog in directory order: the .mp3 files of Directory.
Catalog == << "a.mp3", "b.mp3" >>

\* The track the s-th read stream of a run of whole cycles plays.
ExpectedSong(s) == Catalog[((s - 1) % Len(Catalog)) + 1]

\* All chunks of the track of stream s, in order.
TrackFeed(s) == [i \in 1..Chunks(ExpectedSong(s)) |-> << s, i >>]

RECURSIVE FullFeed(_)
\* The chunks of the first n tracks played, each track whole, one after the other.
FullFeed(n) == IF n = 0 THEN << >> ELSE FullFeed(n - 1) \o TrackFeed(n)

IsPrefix(s, t) == Len(s) <= Len(t) /\ s = SubSeq(t, 1, Len(s))

\* The number of chunks of one cycle.
CycleLen == Len(FullFeed(Len(Catalog)))

\* C11: with loop=false, shuffle=false and no stop(), the read streams opened
\* are the catalog's tracks in catalog order, one open at a time; what is
\* broadcast is each track whole, in that order; the engine goes offline
\* only after whole cycles, ending every registered sink and emptying the
\* registry in that step; and a sink registered at the start of a cycle and
\* ended by the engine has received the whole cycle.
C11_OneCycle ==
    /\ [](/\ \A s \in DOMAIN streams : streams[s].song = ExpectedSong(s)
          /\ Cardinality(OpenSources) <= 1
          /\ IsPrefix(bcast, FullFeed(Len(streams)))
          /\ streams # << >> => IsPrefix(FullFeed(Len(streams) - 1), bcast)
          /\ Offline => /\ Len(streams) % Len(Catalog) = 0
                        /\ bcast = FullFeed(Len(streams))
          /\ \A id \in DOMAIN sinkObj :
                (/\ sinkObj[id].state = "ended"
                 /\ sinkHist[id].regAt % CycleLen = 0
                 /\ sinkHist[id].endAt > sinkHist[id].regAt)
                => sinkObj[id].received =
                     SubSeq(FullFeed(Len(streams)), sinkHist[id].regAt + 1,
                            sinkHist[id].regAt + CycleLen))
    /\ [][ ~Offline /\ Offline' => AllEnded ]_vars

\* The cycle is over: both tracks were played, the engine is offline, and a
\* sink registered before the first chunk holds all three chunks and is ended.
C11_Witness ==
    /\ Offline /\ Len(streams) = Len(Catalog) /\ sinks = << >>
    /\ \E id \in DOMAIN sinkObj :
          /\ sinkObj[id].state = "ended"
          /\ sinkHist[id].regAt = 0
          /\ sinkObj[id].received = << << 1, 1 >>, << 1, 2 >>, << 2, 1 >> >>

\* ------------------------------------------------------- C12: looping
\* C12: with loop=true, a track ending with an empty queue re-lists the
\* catalog and opens the next track; while no stop() has been accepted the
\* engine does not go offline and no sink is ended; and after an accepted
\* stop(false) no further chunk is emitted.
C12_LoopForever ==
    [][ loop =>
          /\ ((\E p \in DOMAIN pacers : PacerEnd(p)) /\ PlayingState /\ playing
                 /\ songs = << >>)
               => /\ Len(streams') = Len(streams) + 1
                  /\ currentSong' = Head(Catalog)
                  /\ songs' = Tail(Catalog)
          /\ (stopReq = "none" /\ stopReq' = "none" /\ ~Offline)
               => /\ ~Offline'
                  /\ \A id \in DOMAIN sinkObj :
                        sinkObj'[id].state = "ended" => sinkObj[id].state = "ended"
          /\ (stopReq = "hard" /\ stopReq' = "hard") => bcast' = bcast ]_vars

\* ------------------------------------------------- C13: registered is open
\* C13: every sink of the registry is open, neither ended nor destroyed, so
\* broadcastChunk writes only to open sinks.
C13_RegisteredOpen == \A id \in Range(sinks) : sinkObj[id].state = "open"

\* A listener has left, another is registered, and a chunk was broadcast
\* after the first one left.
C13_Witness ==
    \E gone, here \in DOMAIN sinkObj :
        /\ sinkObj[gone].state = "destroyed"
        /\ sinkHist[gone].endAt < Len(bcast)
        /\ here \in Range(sinks)
        /\ sinkObj[here].received # << >>

\* ------------------------------------------------------------ C14: connect
\* C14: connect() registers a sink only while a track is active: with no
\* active stream the request gets 503 and the registry is unchanged; with one
\* (Playing or StoppingGraceful) the listener is registered with an open sink.
C14_ConnectOnlyActive ==
    [][ Connect =>
          IF currentSongStream = 0
          THEN last' = "503" /\ UNCHANGED << sinks, sinkObj >>
          ELSE /\ last' = "ok"
               /\ sinks' = Append(sinks, Len(sinkObj) + 1)
               /\ sinkObj'[Len(sinkObj) + 1].state = "open" ]_vars

\* -------------------------------------------------------- C15: getBitRate
\* A fixed bitrate is configured: a number other than 0.
FixedSet(fixed) == fixed.t = "num" /\ (fixed.int # 0 \/ fixed.frac # 0)

\* The probe succeeded: it resolved to a stream whose bit_rate is an integer,
\* as a number or written in digits.
ProbeSucceeded(probe) ==
    /\ ~ProbeThrows(probe)
    /\ LET b == probe.streams[1].bit_rate
       IN  \/ b.t = "num" /\ b.frac = 0
           \/ b.t = "str" /\ b.chars # << >> /\ \A i \in 1..Len(b.chars) : IsDigit(b.chars[i])

\* The integer a successful probe reports.
ProbedInteger(probe) ==
    LET b == probe.streams[1].bit_rate
    IN  IF b.t = "num" THEN b ELSE Num(DigitsToNat(b.chars), 0)

\* C15: getBitRate returns the fixed bitrate whenever one is configured,
\* whatever the probe would give; with none it returns the probed integer
\* when the probe succeeds and 128000 on every failure of the probe (tool
\* error, malformed result, missing bitrate data).
C15_ResolveBitrate ==
    (call.fn = "getBitRate" /\ call.done) =>
        IF FixedSet(call.fixed) THEN call.out = call.fixed
        ELSE IF ProbeSucceeded(call.probe) THEN call.out = ProbedInteger(call.probe)
        ELSE call.out = Num(128000, 0)

\* ------------------------------------------------ C16: catalog unavailable
\* The active stream still has something to play: it exists and has not
\* been read to its end.
TrackInProgress == currentSongStream # 0 /\ ~streams[currentSongStream].ended

\* C16: a failure to list the directory, in start() or in the refill at the
\* end of a track, is reported and changes nothing of the engine; after a
\* failed refill the engine is not left playing, or holding a stream, with
\* no track in progress.
C16_CatalogFailure ==
    [][ /\ StartUnreadable
          => last' = "CatalogUnavailable" /\ UNCHANGED engineVars
        /\ (\E p \in DOMAIN pacers : PacerEndUnreadable(p))
          => /\ last' = "CatalogUnavailable" /\ UNCHANGED engineVars
             /\ (playing' \/ currentSongStream' # 0) => TrackInProgress' ]_vars

\* ------------------------------------------------- C17: start after a stop
\* C17: start() on an engine that holds no stream (it never ran, ran out of
\* tracks, was stopped with stop(false), or finished a graceful stop) is
\* accepted and begins a fresh cycle: the queue is the whole catalog minus
\* its first track, which is the current song and the new active stream.
C17_RestartAfterStop ==
    [][ Start /\ currentSongStream = 0
          => /\ last' = "ok"
             /\ stopReq' = "none"
             /\ currentSong' = Head(Catalog)
             /\ songs' = Tail(Catalog)
             /\ streams' = Append(streams, NewStream(Head(Catalog)))
             /\ currentSongStream' = Len(streams) + 1
             /\ pending' = pending + 1 ]_vars

\* The second track was cut by stop(false) and start() has opened the first
\* track again.
C17_Witness ==
    /\ 2 \in cancelled
    /\ streams[2].song = "b.mp3"
    /\ stopReq = "none"
    /\ last = "ok"
    /\ currentSongStream = 3
    /\ streams[3] = NewStream("a.mp3")
    /\ currentSong = "a.mp3"
    /\ songs = << "b.mp3" >>

\* ----------------------------------------------------------- C18: readSongs
\* The names of the regular files of type .mp3 of a listing, in its order.
QualifyingFiles(dir) ==
    LET q == SelectSeq(dir, LAMBDA e : e.file /\ e.ext = ".mp3")
    IN  [i \in 1..Len(q) |-> q[i].name]

\* C18: readSongs returns exactly the regular .mp3 files of the directory,
\* each once and nothing else; without shuffle in directory order and the
\* same on a repeated call; with shuffle a permutation of that same set.
C18_ListTracks ==
    (call.fn = "readSongs" /\ call.done) =>
        /\ Range(call.out) = Range(QualifyingFiles(call.dir))
        /\ Len(call.out) = Len(QualifyingFiles(call.dir))
        /\ ~call.sh => call.out = QualifyingFiles(call.dir)
        /\ (~call.sh /\ call.again) => call.out = call.prev

\* ------------------------------------------------------ C19: removal
\* C19: the removal a listener's "close" triggers changes nothing of the
\* player's playback; for a registered id it destroys that sink and deletes
\* that entry only, the other sinks staying registered, in order and as they
\* were; for an id that is not registered (its sink was ended by the engine)
\* it changes neither the registry nor any sink.
C19_RemoveIdempotent ==
    [][ \A id \in DOMAIN sinkObj :
          Close(id) =>
            /\ UNCHANGED << songs, currentSong, playing, currentSongStream,
                            streams, pacers, pending, crashed >>
            /\ IF id \in Range(sinks)
               THEN /\ sinkObj' = [sinkObj EXCEPT ![id].state = "destroyed"]
                    /\ sinks' = SelectSeq(sinks, LAMBDA k : k # id)
                    /\ Len(sinks') = Len(sinks) - 1
               ELSE UNCHANGED << sinks, sinkObj >> ]_vars

\* A listener has left while another was registered, and the other is still
\* registered and open.
C19_Witness ==
    \E gone, here \in DOMAIN sinkObj :
        /\ sinkObj[gone].state = "destroyed"
        /\ sinkHist[here].regAt <= sinkHist[gone].endAt
        /\ sinks = << here >>
        /\ sinkObj[here].state = "open"

\* ------------------------------------------------ C20: the missing stream
\* C20: no handler dereferences _currentSongStream while it is null: not the
\* pipe after the bitrate resolved (line 91), not the end handler (line 95),
\* not the exhaustion branch (line 71), not an accepted stop(false) (line 117).
C20_NoNullDereference == last # "TypeError"

\* ------------------------------------------------ C21: no orphaned listener
\* C21: whenever the registry holds a sink an active stream exists, and
\* whenever player.playing is true an active stream exists, so no listener
\* is registered in an engine with nothing to feed or end its sink.
C21_NoOrphan ==
    /\ sinks # << >> => currentSongStream # 0
    /\ playing => currentSongStream # 0

====
